---------------------------- MODULE Spec2Model ----------------------------
(***************************************************************************)
(* Model of the SingularityDetector component                              *)
(* (src/src/SingularityDetector.cpp, src/src/SingularityDetector.h).       *)
(*                                                                         *)
(* Joint positions and limits are doubles in the source; the only          *)
(* operations applied to them are the strict comparisons < and >, so they  *)
(* are modelled by integers.  std::vector / Eigen vectors are sequences;   *)
(* the 0-based index i of the source is element i+1 of a sequence.         *)
(***************************************************************************)
EXTENDS Integers, Sequences, FiniteSets, TLC

VARIABLES
  task_state,               \* RTT::TaskContext state of the component
  number_of_joints,         \* int number_of_joints            (property)
  l1_lower, l1_upper,       \* std::vector<double> limit tables (properties)
  l2_lower, l2_upper,
  l3_lower, l3_upper,
  joint_position,           \* Eigen::VectorXd joint_position
  singularity_scaling,      \* std_msgs::UInt8 singularity_scaling (.data)
  port_joint_position,      \* input port: [status, sample]
  port_singularity_scaling, \* output port: [written, data, seq] (last sample written)
  last_read,                \* the last updateHook cycle: what read() returned, whether the
                            \* classifier ran, the scaling and the port before the cycle
  no_sample_cycles,         \* consecutive updateHook cycles without NewData
  properties_loaded,        \* the deployer has set the properties
  configure_result,         \* what configureHook returned for the properties as they are
  logger,                   \* RTT::Logger lines of the last configureHook call
  call                      \* a direct call of one of the public methods

vars == << task_state, number_of_joints, l1_lower, l1_upper, l2_lower,
           l2_upper, l3_lower, l3_upper, joint_position, singularity_scaling,
           port_joint_position, port_singularity_scaling, last_read,
           no_sample_cycles, properties_loaded, configure_result, logger, call >>

component == << task_state, number_of_joints, l1_lower, l1_upper, l2_lower,
                l2_upper, l3_lower, l3_upper, joint_position,
                singularity_scaling, port_joint_position,
                port_singularity_scaling, last_read, no_sample_cycles,
                properties_loaded, configure_result, logger >>

---------------------------------------------------------------------------
(* Bounds of the model.                                                    *)

MaxJoints == 2      \* joint counts 1..MaxJoints for the classifier and the component
MaxNeg == 2         \* negative joint counts -MaxNeg..-1
MaxCount == 3       \* joint counts up to MaxCount for the validator
MaxLen == 3         \* lengths 0..MaxLen of the limit sequences given to the validator
MaxVal == 3         \* joint positions 0..MaxVal given to the classifier
MaxSample == 1      \* joint positions 0..MaxSample written to the JointPosition port
MaxNoSample == 5    \* consecutive cycles without a new sample

Positions == 0 .. MaxVal
Samples == 0 .. MaxSample
JointCounts == (0 - MaxNeg) .. MaxJoints

Min(a, b) == IF a <= b THEN a ELSE b

(* The six limit tables as one value, in the order of the parameter lists. *)
Limits(a1, b1, a2, b2, a3, b3) ==
  [ l1_lower |-> a1, l1_upper |-> b1, l2_lower |-> a2, l2_upper |-> b2,
    l3_lower |-> a3, l3_upper |-> b3 ]

Tables == Limits(l1_lower, l1_upper, l2_lower, l2_upper, l3_lower, l3_upper)

MinLimitLen(lim) ==
  Min(Min(Min(Len(lim.l1_lower), Len(lim.l1_upper)),
          Min(Len(lim.l2_lower), Len(lim.l2_upper))),
      Min(Len(lim.l3_lower), Len(lim.l3_upper)))

---------------------------------------------------------------------------
(* checkAllLimitsSize                                                      *)

(* The usual arithmetic conversions of  size() != number_of_joints_ :      *)
(* the int is converted to size_t, i.e. taken modulo 2^64.  The converted  *)
(* value is kept as wrap * 2^64 + val (2^64 itself is not representable):  *)
(* a non-negative int is itself, a negative one is 2^64 + n.               *)
ToSizeT(n) == IF n >= 0 THEN [wrap |-> 0, val |-> n] ELSE [wrap |-> 1, val |-> n]

(* size() < number_of_joints_ compared as signed integers.                  *)
SizeSmaller(v, number_of_joints_) == Len(v) < number_of_joints_

SizeDiffers(v, number_of_joints_) == ToSizeT(Len(v)) # ToSizeT(number_of_joints_)

Diagnostic(i, side, v, number_of_joints_) ==
  [ index |-> i, side |-> side, size |-> Len(v), expected |-> number_of_joints_ ]

(* One of the two for loops: the log lines it emits; it returns false at   *)
(* the first sequence of the wrong size.                                   *)
RECURSIVE NoReturnLoop(_, _, _, _)
NoReturnLoop(side, limits, i, number_of_joints_) ==
  IF ~(i < Len(limits)) THEN << >>
  ELSE IF SizeDiffers(limits[i + 1], number_of_joints_)
       THEN << Diagnostic(i, side, limits[i + 1], number_of_joints_) >>
            \o NoReturnLoop(side, limits, i + 1, number_of_joints_)
       ELSE NoReturnLoop(side, limits, i + 1, number_of_joints_)

RECURSIVE LimitsLoop(_, _, _, _)
LimitsLoop(side, limits, i, number_of_joints_) ==
  IF ~(i < Len(limits)) THEN << >>
  ELSE IF SizeDiffers(limits[i + 1], number_of_joints_)
       THEN << Diagnostic(i, side, limits[i + 1], number_of_joints_) >>
       ELSE LimitsLoop(side, limits, i + 1, number_of_joints_)

(* Copy-and-paste slip: the second loop walks lower_limits again.          *)
checkAllLimitsSizeLowerTwice(number_of_joints_, lim) ==
  LET lower_limits == << lim.l1_lower, lim.l2_lower, lim.l3_lower >>
      lo == LimitsLoop("lower", lower_limits, 0, number_of_joints_)
      up == LimitsLoop("upper", lower_limits, 0, number_of_joints_)
  IN  IF lo # << >> THEN [ret |-> FALSE, log |-> lo]
      ELSE IF up # << >> THEN [ret |-> FALSE, log |-> up]
      ELSE [ret |-> TRUE, log |-> << >>]

(* The return statements inside the loops replaced by a flag.              *)
checkAllLimitsSizeReportAll(number_of_joints_, lim) ==
  LET lower_limits == << lim.l1_lower, lim.l2_lower, lim.l3_lower >>
      upper_limits == << lim.l1_upper, lim.l2_upper, lim.l3_upper >>
      all == NoReturnLoop("lower", lower_limits, 0, number_of_joints_)
             \o NoReturnLoop("upper", upper_limits, 0, number_of_joints_)
  IN  [ret |-> (all = << >>), log |-> all]

(* Returns [ret, log]: the bool returned and the Logger lines emitted.     *)
checkAllLimitsSize(number_of_joints_, lim) ==
  LET lower_limits == << lim.l1_lower, lim.l2_lower, lim.l3_lower >>
      upper_limits == << lim.l1_upper, lim.l2_upper, lim.l3_upper >>
      lo == LimitsLoop("lower", lower_limits, 0, number_of_joints_)
      up == LimitsLoop("upper", upper_limits, 0, number_of_joints_)
  IN  IF lo # << >> THEN [ret |-> FALSE, log |-> lo]
      ELSE IF up # << >> THEN [ret |-> FALSE, log |-> up]
      ELSE [ret |-> TRUE, log |-> << >>]

---------------------------------------------------------------------------
(* checkSingularityLevel                                                   *)

(* The if / else-if chain of one loop iteration (i is the 0-based index).  *)
(* Non-strict comparisons: a position on a limit counts as inside.         *)
JointLevelClosed(i, pos, lim) ==
  IF pos[i + 1] <= lim.l3_upper[i + 1] /\ pos[i + 1] >= lim.l3_lower[i + 1] THEN 3
  ELSE IF pos[i + 1] <= lim.l2_upper[i + 1] /\ pos[i + 1] >= lim.l2_lower[i + 1] THEN 2
  ELSE IF pos[i + 1] <= lim.l1_upper[i + 1] /\ pos[i + 1] >= lim.l1_lower[i + 1] THEN 1
  ELSE 0

(* The values assigned in the level-2 and level-1 branches exchanged.       *)
JointLevelSwapped(i, pos, lim) ==
  IF pos[i + 1] < lim.l3_upper[i + 1] /\ pos[i + 1] > lim.l3_lower[i + 1] THEN 3
  ELSE IF pos[i + 1] < lim.l2_upper[i + 1] /\ pos[i + 1] > lim.l2_lower[i + 1] THEN 1
  ELSE IF pos[i + 1] < lim.l1_upper[i + 1] /\ pos[i + 1] > lim.l1_lower[i + 1] THEN 2
  ELSE 0

JointLevel(i, pos, lim) ==
  IF pos[i + 1] < lim.l3_upper[i + 1] /\ pos[i + 1] > lim.l3_lower[i + 1] THEN 3
  ELSE IF pos[i + 1] < lim.l2_upper[i + 1] /\ pos[i + 1] > lim.l2_lower[i + 1] THEN 2
  ELSE IF pos[i + 1] < lim.l1_upper[i + 1] /\ pos[i + 1] > lim.l1_lower[i + 1] THEN 1
  ELSE 0

(* The for loop.  Its bound is the member number_of_joints (self_n), not   *)
(* the parameter number_of_joints_.  An index past the end of one of the   *)
(* vectors is an out-of-range read: oob.                                   *)
RECURSIVE ScanJoints(_, _, _, _, _)
ScanJoints(i, max, self_n, pos, lim) ==
  IF ~(i < self_n) THEN [oob |-> FALSE, max |-> max]
  ELSE IF i >= Min(Len(pos), MinLimitLen(lim)) THEN [oob |-> TRUE, max |-> max]
  ELSE LET temp == JointLevel(i, pos, lim)
       IN  IF temp = 3 THEN [oob |-> FALSE, max |-> 3]
           ELSE ScanJoints(i + 1, IF temp >= max THEN temp ELSE max, self_n, pos, lim)

(* The outcomes of a call made on a component whose member                 *)
(* number_of_joints is self_n.  An out-of-range read is undefined          *)
(* behaviour: the call may return any level or fault.                      *)
checkSingularityLevel(self_n, number_of_joints_, pos, lim) ==
  LET r == ScanJoints(0, 0, self_n, pos, lim)
  IN  IF r.oob THEN [fault : {FALSE}, level : 0 .. 3] \cup {[fault |-> TRUE, level |-> 0]}
      ELSE {[fault |-> FALSE, level |-> r.max]}

---------------------------------------------------------------------------
(* Limit tables the model draws from.  A joint profile gives one joint's   *)
(* three open intervals << lower, upper >>.                                *)

Band(lo, up) == << lo, up >>

Profile(b1, b2, b3) == [l1 |-> b1, l2 |-> b2, l3 |-> b3]

NestedLow == Profile(Band(0, 7), Band(1, 6), Band(2, 5))       \* 0,1,2,3 -> level 0,1,2,3
NestedHigh == Profile(Band(-4, 3), Band(-3, 2), Band(-2, 1))   \* 0,1,2,3 -> level 3,2,1,0
Reversed == Profile(Band(2, 4), Band(1, 3), Band(0, 2))        \* not nested: 1 -> 3, 2 -> 2, 3 -> 1
Coincident == Profile(Band(0, 3), Band(0, 3), Band(0, 3))      \* the three bands are one interval
EmptyBands == Profile(Band(2, 1), Band(1, 1), Band(3, 0))      \* no position is inside any band
NoLevel3 == Profile(Band(-1, 9), Band(0, 2), Band(2, 2))       \* band 3 empty, band 2 inside band 1

JointProfiles == {NestedLow, NestedHigh, Reversed, Coincident, EmptyBands, NoLevel3}

(* The property files the component is configured from: every joint with  *)
(* nested bands, every joint with bands that are not nested, and a mix.    *)
ConfiguredProfiles ==
  { [j \in 1 .. MaxJoints |-> NestedLow],
    [j \in 1 .. MaxJoints |-> NestedHigh],
    [j \in 1 .. MaxJoints |-> Reversed],
    [j \in 1 .. MaxJoints |-> IF j % 2 = 1 THEN NestedLow ELSE Reversed] }

(* The six tables of length len[k] for table k, joint j taking profile prof[j]. *)
TablesOf(prof, len) ==
  Limits([j \in 1 .. len[1] |-> prof[j].l1[1]], [j \in 1 .. len[2] |-> prof[j].l1[2]],
         [j \in 1 .. len[3] |-> prof[j].l2[1]], [j \in 1 .. len[4] |-> prof[j].l2[2]],
         [j \in 1 .. len[5] |-> prof[j].l3[1]], [j \in 1 .. len[6] |-> prof[j].l3[2]])

(* Lengths a property file gives a table when the joint count is n: the   *)
(* right one, one short, one long, or empty.                               *)
LengthsFor(n) == {m \in 0 .. MaxJoints : m = 0 \/ m = n \/ m = n - 1 \/ m = n + 1}

NoCall == [op |-> "none"]

NoCycle == [flow |-> "None", ran |-> FALSE, scaling_before |-> 0,
            port_before |-> [written |-> FALSE, data |-> 0, seq |-> 0]]

---------------------------------------------------------------------------
(* The component.                                                          *)

(* State after the constructor: PreOperational, the vectors empty, the     *)
(* UInt8 message zero, nothing on the ports.  The constructor does not     *)
(* initialise the int number_of_joints: its value is indeterminate.        *)
Constructed ==
  /\ task_state = "PreOperational"
  /\ l1_lower = << >> /\ l1_upper = << >>
  /\ l2_lower = << >> /\ l2_upper = << >>
  /\ l3_lower = << >> /\ l3_upper = << >>
  /\ joint_position = << >>
  /\ singularity_scaling = 0
  /\ port_joint_position = [status |-> "NoData", sample |-> << >>]
  /\ port_singularity_scaling = [written |-> FALSE, data |-> 0, seq |-> 0]
  /\ last_read = NoCycle
  /\ no_sample_cycles = 0
  /\ properties_loaded = FALSE
  /\ configure_result = "none"
  /\ logger = << >>

Init ==
  /\ Constructed
  /\ number_of_joints \in JointCounts
  /\ call = NoCall

(* The deployer sets the seven properties, once, before configure().       *)
SetProperties ==
  /\ task_state = "PreOperational"
  /\ ~properties_loaded
  /\ properties_loaded' = TRUE
  /\ \E n \in JointCounts, prof \in ConfiguredProfiles :
     \E len \in [1 .. 6 -> LengthsFor(n)] :
       LET lim == TablesOf(prof, len)
       IN  /\ number_of_joints' = n
           /\ l1_lower' = lim.l1_lower /\ l1_upper' = lim.l1_upper
           /\ l2_lower' = lim.l2_lower /\ l2_upper' = lim.l2_upper
           /\ l3_lower' = lim.l3_lower /\ l3_upper' = lim.l3_upper
  /\ configure_result' = "none"
  /\ UNCHANGED << task_state, logger, joint_position, singularity_scaling,
                  port_joint_position, port_singularity_scaling, last_read,
                  no_sample_cycles, call >>

(* The value configureHook returns and the lines it logs.                  *)
(* Without the number_of_joints <= 0 test.                                 *)
configureChecksNoSign(n, lim) == checkAllLimitsSize(n, lim)

configureChecks(n, lim) ==
  IF n <= 0 THEN [ret |-> FALSE, log |-> << >>]
  ELSE checkAllLimitsSize(n, lim)

(* configure() in PreOperational runs configureHook; true enters Stopped,  *)
(* false stays PreOperational.  resize() leaves the coefficients of        *)
(* joint_position uninitialised: they are "uninit" until a sample is read. *)
configureHook ==
  /\ task_state = "PreOperational"
  /\ LET r == configureChecks(number_of_joints, Tables)
     IN  /\ configure_result' = IF r.ret THEN "true" ELSE "false"
         /\ logger' = r.log
         /\ IF r.ret
            THEN /\ joint_position' = [j \in 1 .. number_of_joints |-> "uninit"]
                 /\ singularity_scaling' = 1
                 /\ task_state' = "Stopped"
            ELSE UNCHANGED << joint_position, singularity_scaling, task_state >>
  /\ UNCHANGED << number_of_joints, l1_lower, l1_upper, l2_lower, l2_upper,
                  l3_lower, l3_upper, port_joint_position,
                  port_singularity_scaling, last_read, no_sample_cycles,
                  properties_loaded, call >>

(* start() of the task: only a configured (Stopped) task can be started.   *)
Start ==
  /\ task_state = "Stopped"
  /\ task_state' = "Running"
  /\ UNCHANGED << number_of_joints, l1_lower, l1_upper, l2_lower, l2_upper,
                  l3_lower, l3_upper, joint_position, singularity_scaling,
                  port_joint_position, port_singularity_scaling, last_read,
                  no_sample_cycles, properties_loaded, configure_result, logger, call >>

(* The producer writes a sample, one value per joint, to JointPosition.    *)
WriteJointPosition ==
  /\ task_state \in {"Stopped", "Running"}
  /\ \E s \in [1 .. number_of_joints -> Samples] :
       port_joint_position' = [status |-> "NewData", sample |-> s]
  /\ UNCHANGED << task_state, number_of_joints, l1_lower, l1_upper, l2_lower,
                  l2_upper, l3_lower, l3_upper, joint_position,
                  singularity_scaling, port_singularity_scaling, last_read,
                  no_sample_cycles, properties_loaded, configure_result, logger, call >>

(* std_msgs::UInt8 data *)
UInt8(x) == x % 256

(* The assignment of line 62 without the + 1.                              *)
ScalingOfLevel0(singularity_level) == UInt8(singularity_level)

ScalingOf(singularity_level) == UInt8(singularity_level + 1)

(* port_singularity_scaling.write(): the port holds the sample written;   *)
(* seq alternates with every write.  before / after are the value of       *)
(* singularity_scaling at the start of the cycle and at the write.         *)
Written(data, port) == [written |-> TRUE, data |-> data, seq |-> 1 - port.seq]

(* The write moved inside the if.                                          *)
PublishedOnNewDataOnly(flow, before, after, port) ==
  IF flow = "NewData" THEN Written(after, port) ELSE port

(* The write moved before the read.                                        *)
PublishedBeforeRead(flow, before, after, port) == Written(before, port)

Published(flow, before, after, port) == Written(after, port)

(* One periodic cycle.  read() returns NewData once per written sample,    *)
(* OldData afterwards (the sample is copied again), NoData before the      *)
(* first sample.                                                           *)
updateHook ==
  /\ task_state = "Running"
  /\ LET flow == port_joint_position.status
         pos == IF flow = "NoData" THEN joint_position
                ELSE port_joint_position.sample
     IN  /\ flow # "NewData" => no_sample_cycles < MaxNoSample
         /\ joint_position' = pos
         /\ port_joint_position' =
              IF flow = "NewData"
              THEN [port_joint_position EXCEPT !.status = "OldData"]
              ELSE port_joint_position
         /\ IF flow = "NewData"
            THEN \E out \in checkSingularityLevel(number_of_joints, number_of_joints,
                                                  pos, Tables) :
                   /\ ~out.fault
                   /\ singularity_scaling' = ScalingOf(out.level)
            ELSE singularity_scaling' = singularity_scaling
         /\ port_singularity_scaling' =
              Published(flow, singularity_scaling, singularity_scaling',
                        port_singularity_scaling)
         /\ last_read' = [flow |-> flow, ran |-> (flow = "NewData"),
                          scaling_before |-> singularity_scaling,
                          port_before |-> port_singularity_scaling]
         /\ no_sample_cycles' = IF flow = "NewData" THEN 0 ELSE no_sample_cycles + 1
  /\ UNCHANGED << task_state, number_of_joints, l1_lower, l1_upper, l2_lower,
                  l2_upper, l3_lower, l3_upper, properties_loaded,
                  configure_result, logger, call >>

Next ==
  \/ SetProperties
  \/ configureHook
  \/ Start
  \/ WriteJointPosition
  \/ updateHook

Spec == Init /\ [][Next]_vars

---------------------------------------------------------------------------
(* checkAllLimitsSize called with any joint count and any six lengths.     *)
(* The method reads only size() of its arguments: the elements are 0.      *)

ValidatorCounts == (0 - MaxNeg) .. MaxCount

Zeros(n) == [j \in 1 .. n |-> 0]

InitValidate ==
  /\ Constructed
  /\ number_of_joints \in {0}
  /\ \E n \in ValidatorCounts, len \in [1 .. 6 -> 0 .. MaxLen] :
       call = [op |-> "checkAllLimitsSize", done |-> FALSE,
               number_of_joints_ |-> n,
               lim |-> Limits(Zeros(len[1]), Zeros(len[2]), Zeros(len[3]),
                              Zeros(len[4]), Zeros(len[5]), Zeros(len[6])),
               result |-> [ret |-> FALSE, log |-> << >>]]

CallCheckAllLimitsSize ==
  /\ call.op = "checkAllLimitsSize"
  /\ ~call.done
  /\ call' = [call EXCEPT !.done = TRUE,
                          !.result = checkAllLimitsSize(call.number_of_joints_, call.lim)]
  /\ UNCHANGED component

NextValidate == CallCheckAllLimitsSize

SpecValidate == InitValidate /\ [][NextValidate]_vars

---------------------------------------------------------------------------
(* checkSingularityLevel called, as updateHook calls it, on a configured   *)
(* component with its own joint count and tables, for any position vector. *)

InitClassify ==
  /\ \E n \in 1 .. MaxJoints :
     \E prof \in [1 .. n -> JointProfiles], pos \in [1 .. n -> Positions] :
       LET lim == TablesOf(prof, [k \in 1 .. 6 |-> n])
       IN  /\ number_of_joints = n
           /\ l1_lower = lim.l1_lower /\ l1_upper = lim.l1_upper
           /\ l2_lower = lim.l2_lower /\ l2_upper = lim.l2_upper
           /\ l3_lower = lim.l3_lower /\ l3_upper = lim.l3_upper
           /\ joint_position = [j \in 1 .. n |-> "uninit"]
           /\ call = [op |-> "checkSingularityLevel", done |-> FALSE,
                      number_of_joints_ |-> n, joint_position |-> pos, lim |-> lim,
                      result |-> [fault |-> FALSE, level |-> 0]]
  /\ task_state = "Stopped"
  /\ singularity_scaling = 1
  /\ port_joint_position = [status |-> "NoData", sample |-> << >>]
  /\ port_singularity_scaling = [written |-> FALSE, data |-> 0, seq |-> 0]
  /\ last_read = NoCycle
  /\ no_sample_cycles = 0
  /\ properties_loaded = TRUE
  /\ configure_result = "true"
  /\ logger = << >>

CallCheckSingularityLevel ==
  /\ call.op = "checkSingularityLevel"
  /\ ~call.done
  /\ \E out \in checkSingularityLevel(number_of_joints, call.number_of_joints_,
                                      call.joint_position, call.lim) :
       call' = [call EXCEPT !.done = TRUE, !.result = out]
  /\ UNCHANGED component

NextClassify == CallCheckSingularityLevel

SpecClassify == InitClassify /\ [][NextClassify]_vars

---------------------------------------------------------------------------
(* checkSingularityLevel is public: it is called twice with the same       *)
(* arguments while the component's own number_of_joints is whatever it     *)
(* was left at (indeterminate after construction, or set as a property).   *)
(* The member is kept within the size of the vectors passed, so that both  *)
(* calls have defined behaviour (a larger one reads past their end).       *)

InitReentrant ==
  /\ Constructed
  /\ \E n \in 1 .. MaxJoints :
     \E prof \in [1 .. n -> {NestedLow, Reversed}], pos \in [1 .. n -> Samples] :
       call = [op |-> "checkSingularityLevel twice",
               number_of_joints_ |-> n, joint_position |-> pos,
               lim |-> TablesOf(prof, [k \in 1 .. 6 |-> n]),
               results |-> << >>, before |-> << >>, after |-> << >>]
  /\ number_of_joints \in 0 .. call.number_of_joints_

(* One of the two calls: its outcome, and the component's state before     *)
(* and after it.                                                           *)
CallAgain ==
  /\ call.op = "checkSingularityLevel twice"
  /\ Len(call.results) < 2
  /\ UNCHANGED component
  /\ \E out \in checkSingularityLevel(number_of_joints, call.number_of_joints_,
                                      call.joint_position, call.lim) :
       call' = [call EXCEPT !.results = Append(@, out),
                            !.before = Append(@, component),
                            !.after = Append(@, component')]

(* Between the calls the number_of_joints property is set.                 *)
SetNumberOfJoints ==
  /\ call.op = "checkSingularityLevel twice"
  /\ Len(call.results) = 1
  /\ \E n \in 0 .. call.number_of_joints_ : number_of_joints' = n
  /\ UNCHANGED << task_state, l1_lower, l1_upper, l2_lower, l2_upper, l3_lower,
                  l3_upper, joint_position, singularity_scaling,
                  port_joint_position, port_singularity_scaling, last_read,
                  no_sample_cycles, properties_loaded, configure_result,
                  logger, call >>

NextReentrant == CallAgain \/ SetNumberOfJoints

SpecReentrant == InitReentrant /\ [][NextReentrant]_vars

---------------------------------------------------------------------------
(* One joint, any six limits, two positions: the level of each.            *)

InitMonotonic ==
  /\ \E lim \in [1 .. 6 -> Positions], p \in Positions, q \in Positions :
       /\ l1_lower = << lim[1] >> /\ l1_upper = << lim[2] >>
       /\ l2_lower = << lim[3] >> /\ l2_upper = << lim[4] >>
       /\ l3_lower = << lim[5] >> /\ l3_upper = << lim[6] >>
       /\ call = [op |-> "checkSingularityLevel pair", done |-> FALSE,
                  p |-> p, q |-> q,
                  level_p |-> [fault |-> FALSE, level |-> 0],
                  level_q |-> [fault |-> FALSE, level |-> 0]]
  /\ number_of_joints = 1
  /\ joint_position = << "uninit" >>
  /\ task_state = "Stopped"
  /\ singularity_scaling = 1
  /\ port_joint_position = [status |-> "NoData", sample |-> << >>]
  /\ port_singularity_scaling = [written |-> FALSE, data |-> 0, seq |-> 0]
  /\ last_read = NoCycle
  /\ no_sample_cycles = 0
  /\ properties_loaded = TRUE
  /\ configure_result = "true"
  /\ logger = << >>

ClassifyPair ==
  /\ call.op = "checkSingularityLevel pair"
  /\ ~call.done
  /\ \E a \in checkSingularityLevel(number_of_joints, number_of_joints, << call.p >>, Tables),
        b \in checkSingularityLevel(number_of_joints, number_of_joints, << call.q >>, Tables) :
       call' = [call EXCEPT !.done = TRUE, !.level_p = a, !.level_q = b]
  /\ UNCHANGED component

NextMonotonic == ClassifyPair

SpecMonotonic == InitMonotonic /\ [][NextMonotonic]_vars

---------------------------------------------------------------------------
(* What the claims say, stated without the operators above.                *)

(* p lies strictly inside the open interval (lo, up).                      *)
StrictlyInside(p, lo, up) == \E d \in 1 .. (up - lo - 1) : p = lo + d

LocalLevel(pos, lim, j) ==
  IF StrictlyInside(pos[j], lim.l3_lower[j], lim.l3_upper[j]) THEN 3
  ELSE IF StrictlyInside(pos[j], lim.l2_lower[j], lim.l2_upper[j]) THEN 2
  ELSE IF StrictlyInside(pos[j], lim.l1_lower[j], lim.l1_upper[j]) THEN 1
  ELSE 0

(* The maximum of the local levels of joints 1..n (0 for no joint).        *)
MaxLocalLevel(n, pos, lim) ==
  CHOOSE m \in 0 .. 3 :
    /\ \A j \in 1 .. n : LocalLevel(pos, lim, j) <= m
    /\ m = 0 \/ \E j \in 1 .. n : LocalLevel(pos, lim, j) = m

AllOfLength(lim, n) ==
  /\ Len(lim.l1_lower) = n /\ Len(lim.l1_upper) = n
  /\ Len(lim.l2_lower) = n /\ Len(lim.l2_upper) = n
  /\ Len(lim.l3_lower) = n /\ Len(lim.l3_upper) = n

(* The six sequences in the order the validator examines them, with the    *)
(* band index and side each is reported under.                             *)
Examined(lim) ==
  << [index |-> 0, side |-> "lower", v |-> lim.l1_lower],
     [index |-> 1, side |-> "lower", v |-> lim.l2_lower],
     [index |-> 2, side |-> "lower", v |-> lim.l3_lower],
     [index |-> 0, side |-> "upper", v |-> lim.l1_upper],
     [index |-> 1, side |-> "upper", v |-> lim.l2_upper],
     [index |-> 2, side |-> "upper", v |-> lim.l3_upper] >>

MisSized(lim, n) == {k \in 1 .. 6 : Len(Examined(lim)[k].v) # n}

Validated == call.op = "checkAllLimitsSize" /\ call.done

Classified == call.op = "checkSingularityLevel" /\ call.done

---------------------------------------------------------------------------
(* C1: on a length-validated configuration with n > 0 joints and a         *)
(* position vector of length n, checkSingularityLevel returns the maximum  *)
(* over the joints of the local level (3, else 2, else 1, else 0, by       *)
(* strict comparisons; the bands need not be nested); the early exit at    *)
(* level 3 changes nothing.                                                *)
C1_MaxOfLocalLevels ==
  Classified =>
    /\ ~call.result.fault
    /\ call.result.level =
         MaxLocalLevel(call.number_of_joints_, call.joint_position, call.lim)

(* A two-joint call whose first joint sits exactly on its level-3 lower    *)
(* limit (level 2 there) and whose second joint is inside level 3 of bands *)
(* that are not nested.                                                    *)
C1_Witness ==
  /\ Classified
  /\ call.number_of_joints_ = 2
  /\ call.joint_position[1] = call.lim.l3_lower[1]
  /\ LocalLevel(call.joint_position, call.lim, 1) = 2
  /\ call.lim.l1_lower[2] > call.lim.l3_lower[2]
  /\ LocalLevel(call.joint_position, call.lim, 2) = 3
  /\ call.result.level = 3

(* C2: for n > 0, checkAllLimitsSize returns true iff all six sequences    *)
(* have length exactly n.                                                  *)
C2_TrueIffAllSized ==
  (Validated /\ call.number_of_joints_ > 0) =>
    (call.result.ret <=> AllOfLength(call.lim, call.number_of_joints_))

(* n = 3, only the level-2 lower sequence is mis-sized (length 2): false.  *)
C2_Witness ==
  /\ Validated
  /\ call.number_of_joints_ = 3
  /\ MisSized(call.lim, 3) = {2}
  /\ Len(call.lim.l2_lower) = 2
  /\ call.result.ret = FALSE

(* C3 as claimed: for every n <= 0 and any six lengths,                    *)
(* checkAllLimitsSize returns false.                                       *)
C3_FalseForNonPositive ==
  (Validated /\ call.number_of_joints_ <= 0) => call.result.ret = FALSE

(* C3 as amended: for n < 0 checkAllLimitsSize returns false whatever the  *)
(* lengths; for n = 0 it returns true exactly when all six sequences are   *)
(* empty.                                                                  *)
C3_NegativeFalseZeroIffEmpty ==
  /\ (Validated /\ call.number_of_joints_ < 0) => call.result.ret = FALSE
  /\ (Validated /\ call.number_of_joints_ = 0) =>
       (call.result.ret <=> AllOfLength(call.lim, 0))

(* A negative count with sequences that are not all empty is refused.      *)
C3_Witness ==
  /\ Validated
  /\ call.number_of_joints_ < 0
  /\ Len(call.lim.l1_lower) = 1
  /\ Len(call.lim.l3_upper) = 0
  /\ call.result.ret = FALSE

(* C8 as claimed: with k mis-sized sequences exactly k diagnostics are     *)
(* reported.                                                               *)
C8_OneDiagnosticPerMismatch ==
  Validated =>
    Len(call.result.log) = Cardinality(MisSized(call.lim, call.number_of_joints_))

(* C8 as amended: checkAllLimitsSize stops at the first mis-sized sequence *)
(* in the order lower 1, 2, 3 then upper 1, 2, 3 and reports that sequence *)
(* alone (0-based band index, actual length, expected length); with no     *)
(* mis-sized sequence it reports nothing.                                  *)
C8_FirstMismatchOnly ==
  Validated =>
    LET bad == MisSized(call.lim, call.number_of_joints_)
    IN  IF bad = {} THEN call.result.log = << >>
        ELSE LET k == CHOOSE x \in bad : \A y \in bad : x <= y
                 e == Examined(call.lim)[k]
             IN  call.result.log =
                   << [index |-> e.index, side |-> e.side, size |-> Len(e.v),
                       expected |-> call.number_of_joints_] >>

(* Three mis-sized sequences, the first of them the level-3 lower one:     *)
(* one diagnostic, for band index 2.                                       *)
C8_Witness ==
  /\ Validated
  /\ call.number_of_joints_ > 0
  /\ MisSized(call.lim, call.number_of_joints_) = {3, 4, 6}
  /\ Len(call.result.log) = 1
  /\ call.result.log[1].index = 2
  /\ call.result.ret = FALSE

---------------------------------------------------------------------------
Configured == number_of_joints > 0 /\ AllOfLength(Tables, number_of_joints)

CycleRan == last_read.flow # "None"

(* C4: after a successful configureHook every value written to the         *)
(* SingularityScaler port is in {1,2,3,4}, and the value written on a      *)
(* cycle before any sample has arrived (read() returns NoData) is 1.       *)
C4_PublishedInRange ==
  /\ port_singularity_scaling.written => port_singularity_scaling.data \in 1 .. 4
  /\ task_state # "PreOperational" => singularity_scaling \in 1 .. 4
  /\ last_read.flow = "NoData" =>
       port_singularity_scaling.written /\ port_singularity_scaling.data = 1

(* Two cycles have run and no sample has arrived yet: 1 is on the port.    *)
C4_Witness ==
  /\ last_read.flow = "NoData"
  /\ no_sample_cycles = 2
  /\ port_singularity_scaling.written
  /\ port_singularity_scaling.data = 1

(* C5: a cycle in which read() delivers no new sample does not run the     *)
(* classifier, leaves singularity_scaling unchanged and still writes one   *)
(* value, equal to the one the previous cycle wrote.                       *)
C5_NoSampleRepublishes ==
  last_read.flow \in {"NoData", "OldData"} =>
    /\ ~last_read.ran
    /\ singularity_scaling = last_read.scaling_before
    /\ port_singularity_scaling.written
    /\ port_singularity_scaling.seq # last_read.port_before.seq
    /\ port_singularity_scaling.data = last_read.scaling_before
    /\ last_read.port_before.written =>
         port_singularity_scaling.data = last_read.port_before.data

(* Five cycles without a new sample after a classification of level 2:     *)
(* the port still holds 3.                                                 *)
C5_Witness ==
  /\ last_read.flow = "OldData"
  /\ no_sample_cycles = 5
  /\ MaxLocalLevel(number_of_joints, joint_position, Tables) = 2
  /\ port_singularity_scaling.data = 3

(* C6: a cycle that receives a new sample writes, in that cycle, the level *)
(* of that sample under the configured limits plus one, whatever was       *)
(* written before.                                                         *)
C6_NewSamplePublishesLevelPlusOne ==
  last_read.flow = "NewData" =>
    /\ last_read.ran
    /\ port_singularity_scaling.written
    /\ port_singularity_scaling.seq # last_read.port_before.seq
    /\ port_singularity_scaling.data =
         MaxLocalLevel(number_of_joints, joint_position, Tables) + 1

(* Two joints; the previous cycle wrote 4 and the new sample, outside      *)
(* every band, brings the output back to 1.                                *)
C6_Witness ==
  /\ last_read.flow = "NewData"
  /\ number_of_joints = 2
  /\ last_read.port_before.written
  /\ last_read.port_before.data = 4
  /\ port_singularity_scaling.data = 1

C7_SameArgumentsSameLevel ==
  (call.op = "checkSingularityLevel twice" /\ Len(call.results) = 2) =>
    /\ call.results[1] = call.results[2]
    /\ call.before = call.after

(* The level of one joint at positions p and q, and the centre of its      *)
(* level-3 interval (twice the centre, to stay in the integers).           *)
TwiceCentre == l3_lower[1] + l3_upper[1]

(* q lies between p and the centre: on p's side and at least as close.     *)
TowardCentre(p, q) ==
  \/ 2 * p <= 2 * q /\ 2 * q <= TwiceCentre
  \/ 2 * p >= 2 * q /\ 2 * q >= TwiceCentre

NestedBands ==
  /\ l1_lower[1] <= l2_lower[1] /\ l2_lower[1] <= l3_lower[1]
  /\ l3_lower[1] < l3_upper[1]
  /\ l3_upper[1] <= l2_upper[1] /\ l2_upper[1] <= l1_upper[1]

PairClassified == call.op = "checkSingularityLevel pair" /\ call.done

(* C10 as claimed: for any length-validated tables, if q is on the same    *)
(* side of the centre of the level-3 interval as p and at least as close   *)
(* to it, the level at q is >= the level at p.                             *)
C10_MonotonicForAnyTables ==
  (PairClassified /\ TowardCentre(call.p, call.q)) =>
    call.level_q.level >= call.level_p.level

(* C10 as amended: the same, for tables whose level-3 interval is not      *)
(* empty and whose bands are nested (band 3 inside band 2 inside band 1);  *)
(* and a fixed position always gets the same level.                        *)
C10_MonotonicForNestedBands ==
  /\ (PairClassified /\ NestedBands /\ TowardCentre(call.p, call.q)) =>
       call.level_q.level >= call.level_p.level
  /\ (PairClassified /\ call.p = call.q) => call.level_p = call.level_q

(* Nested bands, p in band 1 only, q nearer the centre in band 3.          *)
C10_Witness ==
  /\ PairClassified
  /\ NestedBands
  /\ TowardCentre(call.p, call.q)
  /\ call.level_p.level = 1
  /\ call.level_q.level = 3

===========================================================================
